---------------------------- MODULE Spec2Model ----------------------------
(***************************************************************************)
(* A model of phylotree_parser.py: the condition grammar (class Pattern),  *)
(* the text normalizer (trim_white_space), the row interpreter             *)
(* (process_tr, extract_example_accessions, detect_haplogroup), the tree   *)
(* accumulator (grow_tree, get_deep_hash), the table range filter          *)
(* (is_in_useful_range) and the tree normalizer (_prettify,                *)
(* _prettify_to_array).                                                    *)
(*                                                                         *)
(* A text (a Python str that holds text of the document, or that is       *)
(* stored or compared with one) is the sequence of its Unicode code        *)
(* points; Codes("A1G") is the text written A1G.  A position in a text is  *)
(* 1-based.  The names of the exceptions are strings.  A regular           *)
(* expression is modelled by the set of                                    *)
(* positions at which a match that starts at one of a set of positions can *)
(* end, which is what the backtracking search of `re` explores.  The       *)
(* patterns are str patterns compiled without re.ASCII, so \d and \s are   *)
(* the Unicode classes.  A Python dict is modelled by its items            *)
(* [k |-> key, v |-> value] in insertion order; a dict and a list stored   *)
(* in a dict carry their type, which the code meets when a haplogroup is   *)
(* named as one of the keys the program itself uses.                       *)
(***************************************************************************)
EXTENDS Integers, Sequences, FiniteSets, TLC

VARIABLES
    in_useful_range,   \* self.in_useful_range
    queue,             \* self.queue: depth -> haplogroup
    raw_tree,          \* self.raw_tree: nested dicts
    default_list,      \* the default value of _prettify_to_array's pretty_tree
    exc,               \* the exception that ended parse(), "" while none
    processed,         \* the rows handed to process_tr so far, in order
    tr,                \* the row handed to process_table's loop body, its cells
    last,              \* what the loop body did with tr, and process_tr's locals
    flat,              \* outcome of the calls of prettify_to_array
    text,              \* argument of the Pattern predicates
    verdict            \* their results on text

vars == <<in_useful_range, queue, raw_tree, default_list, exc, processed, tr,
          last, flat, text, verdict>>

-----------------------------------------------------------------------------
(* Strings *)

\* The characters a string can hold, each at the position of its code point:
\* U+0009, U+000A, U+000C, U+000D, U+0020 .. U+005F and U+0061 .. U+007E.
\* The other positions hold a space.
Table ==
    "        \t\n \f\r                   !\"#$%&'()*+,-./0123456789:;<=>?"
        \o "@ABCDEFGHIJKLMNOPQRSTUVWXYZ[\\]^_ abcdefghijklmnopqrstuvwxyz{|}~"

Writable == {9, 10, 12, 13} \cup 32..95 \cup 97..126

\* The code point of a character that can be written in a string.
ord(c) == CHOOSE n \in Writable : SubSeq(Table, n, n) = c

\* The text a string literal of the source denotes.
Codes(w) == [i \in 1..Len(w) |-> ord(SubSeq(w, i, i))]

\* The character (code point) at a position of a text.
Ch(s, i) == s[i]

ATGC == {ord("a"), ord("t"), ord("g"), ord("c"),
         ord("A"), ord("T"), ord("G"), ord("C")}

\* The runs <<first, last>> of the code points of the decimal digits
\* (category Nd), which is what \d matches in a str pattern.
DigitRanges ==
    {<<48, 57>>, <<1632, 1641>>, <<1776, 1785>>, <<1984, 1993>>,
     <<2406, 2415>>, <<2534, 2543>>, <<2662, 2671>>, <<2790, 2799>>,
     <<2918, 2927>>, <<3046, 3055>>, <<3174, 3183>>, <<3302, 3311>>,
     <<3430, 3439>>, <<3558, 3567>>, <<3664, 3673>>, <<3792, 3801>>,
     <<3872, 3881>>, <<4160, 4169>>, <<4240, 4249>>, <<6112, 6121>>,
     <<6160, 6169>>, <<6470, 6479>>, <<6608, 6617>>, <<6784, 6793>>,
     <<6800, 6809>>, <<6992, 7001>>, <<7088, 7097>>, <<7232, 7241>>,
     <<7248, 7257>>, <<42528, 42537>>, <<43216, 43225>>, <<43264, 43273>>,
     <<43472, 43481>>, <<43504, 43513>>, <<43600, 43609>>, <<44016, 44025>>,
     <<65296, 65305>>, <<66720, 66729>>, <<68912, 68921>>, <<69734, 69743>>,
     <<69872, 69881>>, <<69942, 69951>>, <<70096, 70105>>, <<70384, 70393>>,
     <<70736, 70745>>, <<70864, 70873>>, <<71248, 71257>>, <<71360, 71369>>,
     <<71472, 71481>>, <<71904, 71913>>, <<72016, 72025>>, <<72784, 72793>>,
     <<73040, 73049>>, <<73120, 73129>>, <<92768, 92777>>, <<92864, 92873>>,
     <<93008, 93017>>, <<120782, 120831>>, <<123200, 123209>>,
     <<123632, 123641>>, <<125264, 125273>>, <<130032, 130041>>}

DIGIT == UNION {r[1]..r[2] : r \in DigitRanges}

\* What \s matches in a str pattern: the characters str.isspace() accepts.
WHITESPACE ==
    {9, 10, 11, 12, 13, 28, 29, 30, 31, 32, 133, 160, 5760, 8232, 8233, 8239,
     8287, 12288} \cup 8192..8202

\* One character of class C consumed from a position of P.
OneOf(s, P, C) == {p + 1 : p \in {q \in P : q <= Len(s) /\ Ch(s, q) \in C}}

\* C?
Opt(s, P, C) == P \cup OneOf(s, P, C)

\* C+
RECURSIVE Many(_, _, _)
Many(s, P, C) ==
    LET Q == OneOf(s, P, C)
    IN  IF Q = {} THEN {} ELSE Q \cup Many(s, Q, C)

\* C*
Star(s, P, C) == P \cup Many(s, P, C)

\* The literal w.
Lit(s, P, w) ==
    {p + Len(w) : p \in {q \in P : /\ q + Len(w) - 1 <= Len(s)
                                   /\ SubSeq(s, q, q + Len(w) - 1) = w}}

-----------------------------------------------------------------------------
(* Pattern *)

\* The characters and words the patterns and the normalizer name.
OPEN == ord("(")

CLOSE == ord(")")

REVERSION == ord("!")

SPACE == ord(" ")

MARKER == Codes("mt-MRCA")

REGULAR(s, P) ==
    LET unstable   == Opt(s, P, {OPEN})
        ancestor   == OneOf(s, unstable, ATGC)
        position   == Many(s, ancestor, DIGIT)
        descendant == OneOf(s, position, ATGC)
        reversion  == Star(s, descendant, {REVERSION})
    IN  Opt(s, reversion, {CLOSE})

IRREGULAR(s) ==
    LET unstable  == Opt(s, {1}, {OPEN})
        deletion  == Lit(s, Many(s, Opt(s, unstable, ATGC), DIGIT), Codes("d"))
        insertion == Opt(s, Many(s, Opt(s, Lit(s, Many(s, unstable, DIGIT),
                                               Codes(".")),
                                        DIGIT \cup {ord("X")}), ATGC),
                         {ord("d")})
        range     == Lit(s, Many(s, Lit(s, Many(s, unstable, DIGIT),
                                        Codes("-")),
                                 DIGIT), Codes("d"))
        reserved  == Lit(s, unstable, Codes("reserved"))
        reversion == Star(s, deletion \cup insertion \cup range \cup reserved,
                          {REVERSION})
    IN  Len(s) + 1 \in Opt(s, reversion, {CLOSE})

\* The literals of the alternation, as written in the source.
ExceptionLiterals ==
    {"T65d", "G71d", "A249d", "C299d", "C309d", "A337d", "T455d", "C456d",
     "C459d", "C498d", "C960d", "A1409d", "A1656d", "A2074d", "A2395d",
     "A4317d", "A5752d", "A5894d", "C5899d", "C7471d", "T15944d", "A16166d",
     "C16187d", "C16193d", "C16257d", "T16325d", "59-60d", "105-110d",
     "106-111d", "290-291d", "291-294d", "8281-8289d", "573.XC", "960.XC",
     "965.XC", "5899.XC", "8278.XC", "5899.XCd!", "44.1C", "5899.1C",
     "459.1C", "15944.1T", "374.1A", "455.1T", "2232.1A", "16259.1A",
     "595.1C", "1719.1G", "3172.1C", "191.1A", "2156.1A", "55.1T", "65.1T",
     "60.1T", "42.1G", "12310.1A", "291.1A", "5752.1A", "310.1T", "597.1T",
     "3229.1A", "2405.1C", "8276.1C", "2484.1C", "745.1T", "498.1C",
     "16169.1C", "8279.1T", "5740.1A", "960.1C", "3307.1A", "93.1T",
     "456.1T", "356.1C", "3158.1T", "C5899.1d!", "459.1Cd!", "60.1TT",
     "292.1AT", "368.1AGAA", "8289.1CCCCCTCTA", "8289.1CCCCCTCTACCCCCTCTA",
     "455.2T", "2232.2A", "(573.XC)", "(745.1T)", "(960.1C)", "(C965d)",
     "(C16193d)", "reserved"}

ExceptionList == {Codes(w) : w \in ExceptionLiterals}

\* The alternation of the escaped literals: a member of the list read from a
\* position of P.
EXCEPTIONS(s, P) ==
    {q \in 2..(Len(s) + 1) :
        \E p \in P : p < q /\ SubSeq(s, p, q - 1) \in ExceptionList}

BRANCH_CONDITION(s, P) == REGULAR(s, P) \cup EXCEPTIONS(s, P)

\* (?:\s BRANCH_CONDITION)* from the positions of P.
RECURSIVE MoreConditions(_, _)
MoreConditions(s, P) ==
    LET Q == BRANCH_CONDITION(s, OneOf(s, P, WHITESPACE))
    IN  IF Q \subseteq P THEN P ELSE MoreConditions(s, P \cup Q)

BRANCH_CONDITIONS(s) ==
    Len(s) + 1 \in MoreConditions(s, BRANCH_CONDITION(s, {1}))

TABLE_TITLE(s) == \E i \in 1..Len(s) : Lit(s, {i}, MARKER) # {}

is_irregular(s) == IRREGULAR(s)

is_table_title(s) == TABLE_TITLE(s)

is_branch_conditions(s) == BRANCH_CONDITIONS(s)

-----------------------------------------------------------------------------
(* Strings.replace and trim_white_space *)

\* re.sub('^\s+', '', s)
RECURSIVE StripLeading(_)
StripLeading(s) ==
    IF Len(s) > 0 /\ Ch(s, 1) \in WHITESPACE
    THEN StripLeading(SubSeq(s, 2, Len(s)))
    ELSE s

\* re.sub('\s+$', '', s)
RECURSIVE StripTrailing(_)
StripTrailing(s) ==
    IF Len(s) > 0 /\ Ch(s, Len(s)) \in WHITESPACE
    THEN StripTrailing(SubSeq(s, 1, Len(s) - 1))
    ELSE s

\* re.sub('\s+', ' ', s)
RECURSIVE Collapse(_)
Collapse(s) ==
    IF Len(s) = 0 THEN << >>
    ELSE IF Ch(s, 1) \in WHITESPACE
         THEN <<SPACE>> \o Collapse(StripLeading(s))
         ELSE <<Ch(s, 1)>> \o Collapse(SubSeq(s, 2, Len(s)))

trim_white_space(s) == Collapse(StripTrailing(StripLeading(s)))

\* str.split(' ')
RECURSIVE Split(_, _)
Split(s, word) ==
    IF Len(s) = 0 THEN <<word>>
    ELSE IF Ch(s, 1) = SPACE
         THEN <<word>> \o Split(SubSeq(s, 2, Len(s)), << >>)
         ELSE Split(SubSeq(s, 2, Len(s)), Append(word, Ch(s, 1)))

split(s) == Split(s, << >>)

-----------------------------------------------------------------------------
(* dict and list *)

\* A dict: its items [k |-> key, v |-> value] in insertion order.
Dict(items) == [type |-> "dict", items |-> items]

\* A list stored in a dict: its elements.
List(elements) == [type |-> "list", items |-> elements]

EmptyDict == Dict(<< >>)

Keys(dic) == {dic.items[i].k : i \in DOMAIN dic.items}

\* key in dic
Has(dic, key) == key \in Keys(dic)

IndexOf(dic, key) == CHOOSE i \in DOMAIN dic.items : dic.items[i].k = key

\* dic[key]
Get(dic, key) == dic.items[IndexOf(dic, key)].v

\* dic[key] = val
Put(dic, key, val) ==
    IF Has(dic, key)
    THEN [dic EXCEPT !.items[IndexOf(dic, key)] = [k |-> key, v |-> val]]
    ELSE [dic EXCEPT !.items = Append(@, [k |-> key, v |-> val])]

\* bool(value) of a dict or a list
Truthy(value) == Len(value.items) # 0

\* The keys of a self-branch and of a node of the normalized tree.
CONDITIONS == Codes("conditions")

EXAMPLE_ACCESSIONS == Codes("example_accessions")

DESCENTANTS == Codes("descentants")

BLANK_BRANCH_NAME == Codes("__BRANCH__")

SELF_BRANCH_NAME == Codes("__SELF__")

-----------------------------------------------------------------------------
(* Row interpreter *)

\* Mutant: only the last column is read.
extract_example_accessions_last_column(cols) ==
    IF Len(cols) < 2
    THEN [exc |-> "IndexError", value |-> << >>]
    ELSE [exc |-> "",
          value |-> SelectSeq(SubSeq(cols, Len(cols), Len(cols)),
                              LAMBDA c : c # << >>)]

\* [cols[i] for i in [-2, -1] if cols[i]]; cols[-2] of a shorter list raises.
extract_example_accessions(cols) ==
    IF Len(cols) < 2
    THEN [exc |-> "IndexError", value |-> << >>]
    ELSE [exc |-> "",
          value |-> SelectSeq(SubSeq(cols, Len(cols) - 1, Len(cols)),
                              LAMBDA c : c # << >>)]

\* The loop of detect_haplogroup from candidate i on.  The name
\* DuplicateDetectionError is not bound in the method's scope (the class is
\* an attribute of PhylotreeParser), so the raise statement raises NameError.
RECURSIVE DetectFrom(_, _, _, _)
DetectFrom(candidates, example_accessions, i, haplogroup) ==
    IF i > Len(candidates)
    THEN [exc |-> "",
          value |-> IF haplogroup = << >> THEN BLANK_BRANCH_NAME
                    ELSE haplogroup]
    ELSE IF \E j \in DOMAIN example_accessions :
                example_accessions[j] = candidates[i]
         THEN DetectFrom(candidates, example_accessions, i + 1, haplogroup)
         ELSE IF haplogroup # << >>
              THEN [exc |-> "NameError", value |-> haplogroup]
              ELSE DetectFrom(candidates, example_accessions, i + 1,
                              candidates[i])

detect_haplogroup(candidates, example_accessions) ==
    DetectFrom(candidates, example_accessions, 1, << >>)

-----------------------------------------------------------------------------
(* Tree accumulator *)

\* get_deep_hash(dic, arr, itr) followed by the store grow_tree makes through
\* the reference it returns: the dict dic becomes, and the exception raised.
\* Nodes created before an exception stay created.  A list met on the way (the
\* value of a key of a self-branch) cannot be indexed by a name: TypeError.
RECURSIVE get_deep_hash(_, _, _, _)

\* Mutant: dic[key] = {} whether or not the key is in dic.
get_deep_hash_always_new(dic, arr, itr, self_branch) ==
    IF Len(itr) = 0
    THEN [exc |-> "IndexError", dic |-> dic]
    ELSE IF ~Has(arr, Head(itr))
         THEN [exc |-> "KeyError", dic |-> dic]
         ELSE IF dic.type = "list"
              THEN [exc |-> "TypeError", dic |-> dic]
              ELSE LET key     == Get(arr, Head(itr))
                       created == Put(dic, key, EmptyDict)
                   IN  IF Len(Tail(itr)) = 0
                       THEN [exc |-> "",
                             dic |-> Put(created, key,
                                         Put(EmptyDict, SELF_BRANCH_NAME,
                                             self_branch))]
                       ELSE LET deeper == get_deep_hash(EmptyDict, arr,
                                              Tail(itr), self_branch)
                            IN  [exc |-> deeper.exc,
                                 dic |-> Put(created, key, deeper.dic)]

\* Mutant: the dict returned at the end of the path is dic, not dic[key].
get_deep_hash_returns_parent(dic, arr, itr, self_branch) ==
    IF Len(itr) = 0
    THEN [exc |-> "IndexError", dic |-> dic]
    ELSE IF ~Has(arr, Head(itr))
         THEN [exc |-> "KeyError", dic |-> dic]
         ELSE IF dic.type = "list"
              THEN [exc |-> "TypeError", dic |-> dic]
              ELSE LET key     == Get(arr, Head(itr))
                       created == IF Has(dic, key) THEN dic
                                  ELSE Put(dic, key, EmptyDict)
                   IN  IF Len(Tail(itr)) = 0
                       THEN [exc |-> "",
                             dic |-> Put(created, SELF_BRANCH_NAME,
                                         self_branch)]
                       ELSE LET deeper == get_deep_hash(Get(created, key),
                                              arr, Tail(itr), self_branch)
                            IN  [exc |-> deeper.exc,
                                 dic |-> Put(created, key, deeper.dic)]

get_deep_hash(dic, arr, itr, self_branch) ==
    IF Len(itr) = 0
    THEN [exc |-> "IndexError", dic |-> dic]
    ELSE LET idx == Head(itr)
             rest == Tail(itr)
         IN  IF ~Has(arr, idx)
             THEN [exc |-> "KeyError", dic |-> dic]
             ELSE IF dic.type = "list"
                  THEN [exc |-> "TypeError", dic |-> dic]
                  ELSE LET key      == Get(arr, idx)
                           created  == IF Has(dic, key) THEN dic
                                       ELSE Put(dic, key, EmptyDict)
                           next_dic == Get(created, key)
                       IN  IF Len(rest) = 0
                           THEN IF next_dic.type = "list"
                                THEN [exc |-> "TypeError", dic |-> created]
                                ELSE [exc |-> "",
                                      dic |-> Put(created, key,
                                                  Put(next_dic,
                                                      SELF_BRANCH_NAME,
                                                      self_branch))]
                           ELSE LET deeper == get_deep_hash(next_dic, arr,
                                                  rest, self_branch)
                                IN  [exc |-> deeper.exc,
                                     dic |-> Put(created, key, deeper.dic)]

\* {'conditions': conditions, 'example_accessions': example_accessions}
SelfBranch(conditions, example_accessions) ==
    Dict(<<[k |-> CONDITIONS, v |-> List(conditions)],
           [k |-> EXAMPLE_ACCESSIONS,
            v |-> List(example_accessions)]>>)

\* list(range(n))
Range(n) == [i \in 1..n |-> i - 1]

\* Mutant: the path stops one level short, range(depth) for range(depth + 1).
grow_tree_range_depth(q, tree, haplogroup, conditions, example_accessions, depth) ==
    LET stored == Put(q, depth, haplogroup)
        grown  == get_deep_hash(tree, stored, Range(depth),
                                SelfBranch(conditions, example_accessions))
    IN  [exc |-> grown.exc, queue |-> stored, raw_tree |-> grown.dic]

grow_tree(q, tree, haplogroup, conditions, example_accessions, depth) ==
    LET stored == Put(q, depth, haplogroup)
        grown  == get_deep_hash(tree, stored, Range(depth + 1),
                                SelfBranch(conditions, example_accessions))
    IN  [exc |-> grown.exc, queue |-> stored, raw_tree |-> grown.dic]

-----------------------------------------------------------------------------
(* process_tr *)

NoLocals ==
    [cols |-> << >>, conditions |-> << >>, depth |-> 0,
     haplogroup_candidates |-> << >>]

\* The loop over enumerate(tr.find_all('td')) from the cell of index i on.
RECURSIVE ScanCells(_, _, _)
ScanCells(tds, i, locals) ==
    IF i >= Len(tds) THEN locals
    ELSE LET txt  == trim_white_space(tds[i + 1])
             cols == Append(locals.cols, txt)
         IN  IF Len(txt) = 0
             THEN ScanCells(tds, i + 1, [locals EXCEPT !.cols = cols])
             ELSE IF is_branch_conditions(txt)
                  THEN ScanCells(tds, i + 1,
                           [locals EXCEPT !.cols = cols,
                                          !.conditions = split(txt),
                                          !.depth = i - 1])
                  ELSE ScanCells(tds, i + 1,
                           [locals EXCEPT !.cols = cols,
                                          !.haplogroup_candidates =
                                              Append(@, txt)])

\* What process_tr leaves: the exception it raised, the statement it got to
\* (stage), the parser's fields and its own locals.
Outcome(e, stage, q, tree, locals, example_accessions, haplogroup) ==
    [exc |-> e, stage |-> stage, queue |-> q, raw_tree |-> tree,
     cols |-> locals.cols, conditions |-> locals.conditions,
     depth |-> locals.depth,
     haplogroup_candidates |-> locals.haplogroup_candidates,
     example_accessions |-> example_accessions, haplogroup |-> haplogroup]

\* Mutant: no return when the row has no conditions.
process_tr_without_return(q, tree, tds) ==
    LET locals     == ScanCells(tds, 0, NoLocals)
        accessions == extract_example_accessions(locals.cols)
        detected   == detect_haplogroup(locals.haplogroup_candidates,
                                        accessions.value)
        grown      == grow_tree(q, tree, detected.value, locals.conditions,
                                accessions.value, locals.depth)
    IN  Outcome(grown.exc, "grow_tree", grown.queue, grown.raw_tree, locals,
                accessions.value, detected.value)

process_tr(q, tree, tds) ==
    LET locals == ScanCells(tds, 0, NoLocals)
    IN  IF Len(locals.conditions) = 0
        THEN Outcome("", "return", q, tree, locals, << >>, << >>)
        ELSE LET accessions == extract_example_accessions(locals.cols)
             IN  IF accessions.exc # ""
                 THEN Outcome(accessions.exc, "extract_example_accessions",
                              q, tree, locals, << >>, << >>)
                 ELSE LET detected ==
                              detect_haplogroup(locals.haplogroup_candidates,
                                                accessions.value)
                      IN  IF detected.exc # ""
                          THEN Outcome(detected.exc, "detect_haplogroup", q,
                                       tree, locals, accessions.value, << >>)
                          ELSE LET grown ==
                                       grow_tree(q, tree, detected.value,
                                                 locals.conditions,
                                                 accessions.value,
                                                 locals.depth)
                               IN  Outcome(grown.exc, "grow_tree",
                                           grown.queue, grown.raw_tree,
                                           locals, accessions.value,
                                           detected.value)

-----------------------------------------------------------------------------
(* Table range filter *)

\* Mutant: the title row itself is accepted.
is_in_useful_range_with_title(flag, txt) ==
    IF ~flag /\ is_table_title(txt)
    THEN [in_useful_range |-> TRUE, value |-> TRUE]
    ELSE [in_useful_range |-> flag, value |-> flag]

\* The value is_in_useful_range returns and the field it leaves.
is_in_useful_range(flag, txt) ==
    IF ~flag /\ is_table_title(txt)
    THEN [in_useful_range |-> TRUE, value |-> FALSE]
    ELSE [in_useful_range |-> flag, value |-> flag]

\* tr.get_text(): the texts of the row's cells, one after the other.
RECURSIVE get_text(_)
get_text(tds) ==
    IF Len(tds) = 0 THEN << >> ELSE Head(tds) \o get_text(Tail(tds))

-----------------------------------------------------------------------------
(* Tree normalizer *)

\* _prettify(raw_tree): the exception raised and the dict returned.
\* Descentants is the loop over raw_tree.items() from item i on.  A
\* self-branch that is not the dict grow_tree stores (the node of a haplogroup
\* named as the reserved key) lacks the keys read from it: KeyError.
RECURSIVE _prettify(_), Descentants(_, _, _)
_prettify(tree) ==
    IF tree.type = "list"
    THEN [exc |-> IF \E i \in DOMAIN tree.items :
                         tree.items[i] = SELF_BRANCH_NAME
                  THEN "TypeError" ELSE "AttributeError",
          value |-> EmptyDict]
    ELSE LET self_branch == IF Has(tree, SELF_BRANCH_NAME)
                            THEN Get(tree, SELF_BRANCH_NAME)
                            ELSE EmptyDict
             looped      == Descentants(tree.items, 1, EmptyDict)
             descentants == looped.value
             WithKey(pretty_tree, key) ==
                 Put(pretty_tree, key, Get(self_branch, key))
             Missing(key) == ~Has(self_branch, key)
             Hoisted(pretty_tree) ==
                 IF Truthy(descentants)
                 THEN Put(pretty_tree, DESCENTANTS, descentants)
                 ELSE pretty_tree
         IN  IF looped.exc # ""
             THEN [exc |-> looped.exc, value |-> EmptyDict]
             ELSE IF ~Truthy(self_branch)
                  THEN [exc |-> "", value |-> Hoisted(EmptyDict)]
                  ELSE IF self_branch.type = "list"
                       THEN [exc |-> "TypeError", value |-> EmptyDict]
                       ELSE IF \/ Missing(CONDITIONS)
                               \/ Missing(EXAMPLE_ACCESSIONS)
                            THEN [exc |-> "KeyError", value |-> EmptyDict]
                            ELSE [exc |-> "",
                                  value |->
                                      Hoisted(WithKey(
                                          WithKey(EmptyDict,
                                                  CONDITIONS),
                                          EXAMPLE_ACCESSIONS))]

Descentants(items, i, descentants) ==
    IF i > Len(items)
    THEN [exc |-> "", value |-> descentants]
    ELSE IF items[i].k = SELF_BRANCH_NAME
         THEN Descentants(items, i + 1, descentants)
         ELSE LET pretty == _prettify(items[i].v)
              IN  IF pretty.exc # ""
                  THEN [exc |-> pretty.exc, value |-> descentants]
                  ELSE Descentants(items, i + 1,
                                   Put(descentants, items[i].k, pretty.value))

prettify(tree) == _prettify(tree)

\* _prettify_to_array(tree, pretty_tree, parent): the exception raised and the
\* list pretty_tree as the call leaves it.  A missing key raises KeyError.
\* EachBranch is the for loop from item i of tree['descentants'] on.
RECURSIVE _prettify_to_array(_, _, _), EachBranch(_, _, _, _)
_prettify_to_array(tree, pretty_tree, parent) ==
    IF ~Has(tree, DESCENTANTS)
    THEN [exc |-> "KeyError", pretty_tree |-> pretty_tree]
    ELSE EachBranch(Get(tree, DESCENTANTS).items, 1, pretty_tree,
                    parent)

EachBranch(items, i, pretty_tree, parent) ==
    IF i > Len(items)
    THEN [exc |-> "", pretty_tree |-> pretty_tree]
    ELSE LET name     == items[i].k
             branches == items[i].v
         IN  IF ~Has(branches, CONDITIONS)
             THEN [exc |-> "KeyError", pretty_tree |-> pretty_tree]
             ELSE LET current ==
                          Append(parent,
                                 [name |-> name,
                                  conditions |->
                                      Get(branches, CONDITIONS)])
                      appended == Append(pretty_tree, current)
                  IN  IF ~Has(branches, DESCENTANTS)
                      THEN [exc |-> "KeyError", pretty_tree |-> appended]
                      ELSE IF Truthy(Get(branches, DESCENTANTS))
                           THEN LET inner == _prettify_to_array(branches,
                                                 appended, parent)
                                IN  IF inner.exc # "" THEN inner
                                    ELSE EachBranch(items, i + 1,
                                             inner.pretty_tree, parent)
                           ELSE EachBranch(items, i + 1, appended, parent)

\* prettify_to_array(): the default list is shared by the calls that do not
\* pass pretty_tree.
prettify_to_array(tree, shared) ==
    LET pretty == prettify(tree)
    IN  IF pretty.exc # ""
        THEN [exc |-> pretty.exc, pretty_tree |-> shared]
        ELSE _prettify_to_array(pretty.value, shared, << >>)

-----------------------------------------------------------------------------
(* Inputs *)

MaxRows == 4

MaxCells == 5

MaxPieces == 3

\* Characters of the document that no string can hold.
NBSP == <<160>>

ARABIC_INDIC_DIGIT_TWO == <<1634>>

VT == <<11>>

Blanks(n) == [i \in 1..n |-> << >>]

\* A row of the classification table: the haplogroup in the column of its
\* depth, its conditions in the next one, the two accession columns last.
TreeRow(depth, name, conditions, accession) ==
    Blanks(depth) \o <<Codes(name), conditions, << >>, Codes(accession)>>

\* Two conditions, the first with a digit that is not ASCII, between
\* whitespace of several kinds.
TwoConditions ==
    NBSP \o Codes("T") \o ARABIC_INDIC_DIGIT_TWO \o Codes("C!\t\r960.XC")
         \o VT

\* The title row of the table; past the title it reads as a row of depth 0.
TitleRow == <<Codes("mt-MRCA"), Codes("A1G"), << >>, << >>>>

HeaderRow == <<Codes("Haplogroup"), NBSP, Codes("Accession")>>

LegendRow == <<Codes(" unstable ") \o Codes("mutations ")>>

EmptyRow == << >>

TwoNamesRow == <<Codes("H"), Codes("I"), Codes("A1G"), << >>, << >>>>

ConditionFirstRow == <<Codes("A1G"), Codes("H"), << >>, << >>>>

DocRows ==
    {TitleRow, HeaderRow, LegendRow, EmptyRow, TwoNamesRow, ConditionFirstRow,
     TreeRow(0, "H", Codes("A1G"), ""),
     TreeRow(0, "H", TwoConditions, "AB1"),
     TreeRow(0, "I", Codes("A1G"), ""),
     TreeRow(1, "H1", Codes("A1G"), ""),
     TreeRow(1, "H2", Codes("A1G"), ""),
     TreeRow(1, "", Codes("(T2C)"), "AB1"),
     TreeRow(2, "H1", Codes("A1G"), "")}

RowCells ==
    {<< >>, Codes("A123G"), TwoConditions, Codes("H1"), Codes("AB123456")}

RECURSIVE RowsOfLength(_)
RowsOfLength(n) ==
    IF n = 0 THEN {<< >>}
    ELSE {Append(row, cell) : row \in RowsOfLength(n - 1), cell \in RowCells}

AllRows == UNION {RowsOfLength(n) : n \in 0..MaxCells}

Pieces ==
    {Codes("A123G"), Codes(" T456C"), Codes("!"), Codes(" "), Codes("\t"),
     Codes("("), Codes("123d"), Codes("960.XC"), Codes("reserved"),
     Codes("\r"), NBSP, ARABIC_INDIC_DIGIT_TWO}

RECURSIVE TextsOf(_)
TextsOf(n) ==
    IF n = 0 THEN {<< >>}
    ELSE {t \o piece : t \in TextsOf(n - 1), piece \in Pieces}

Texts == UNION {TextsOf(n) : n \in 0..MaxPieces}

-----------------------------------------------------------------------------
(* The parser *)

NoVerdict == [stage |-> "none"]

Locals(accepted, outcome) ==
    [accepted |-> accepted, stage |-> outcome.stage, cols |-> outcome.cols,
     conditions |-> outcome.conditions, depth |-> outcome.depth,
     haplogroup_candidates |-> outcome.haplogroup_candidates,
     example_accessions |-> outcome.example_accessions,
     haplogroup |-> outcome.haplogroup]

NotProcessed(stage) ==
    Locals(FALSE, Outcome("", stage, queue, raw_tree, NoLocals, << >>, << >>))

\* PhylotreeParser(filename)
Init ==
    /\ in_useful_range = FALSE
    /\ queue = EmptyDict
    /\ raw_tree = EmptyDict
    /\ default_list = << >>
    /\ exc = ""
    /\ processed = << >>
    /\ tr = << >>
    /\ last = NotProcessed("none")
    /\ flat = [calls |-> 0, exc |-> "", value |-> << >>]
    /\ text = << >>
    /\ verdict = NoVerdict

\* One turn of the loop of process_table on the next row of the document.
ReadRow(row) ==
    /\ exc = ""
    /\ flat.calls = 0
    /\ Len(processed) < MaxRows
    /\ LET useful  == is_in_useful_range(in_useful_range, get_text(row))
           outcome == process_tr(queue, raw_tree, row)
       IN  /\ in_useful_range' = useful.in_useful_range
           /\ IF useful.value
              THEN /\ queue' = outcome.queue
                   /\ raw_tree' = outcome.raw_tree
                   /\ exc' = outcome.exc
                   /\ last' = Locals(TRUE, outcome)
                   /\ processed' = Append(processed, row)
              ELSE /\ UNCHANGED <<queue, raw_tree, exc, processed>>
                   /\ last' = NotProcessed("continue")
    /\ tr' = row
    /\ UNCHANGED <<default_list, flat, text, verdict>>

MaxCalls == 2

\* parser.prettify_to_array() once parse() has returned.
Flatten ==
    /\ exc = ""
    /\ flat.calls < MaxCalls
    /\ LET array == prettify_to_array(raw_tree, default_list)
       IN  /\ default_list' = array.pretty_tree
           /\ flat' = [calls |-> flat.calls + 1, exc |-> array.exc,
                       value |-> IF array.exc = "" THEN array.pretty_tree
                                 ELSE << >>]
    /\ UNCHANGED <<in_useful_range, queue, raw_tree, exc, processed, tr,
                   last, text, verdict>>

\* process_tr(tr) on a new parser.
InterpretRow(row) ==
    /\ last.stage = "none"
    /\ LET outcome == process_tr(queue, raw_tree, row)
       IN  /\ queue' = outcome.queue
           /\ raw_tree' = outcome.raw_tree
           /\ exc' = outcome.exc
           /\ last' = Locals(TRUE, outcome)
    /\ tr' = row
    /\ processed' = Append(processed, row)
    /\ UNCHANGED <<in_useful_range, default_list, flat, text, verdict>>

\* The predicates of Pattern on a text.
Classify(t) ==
    /\ verdict.stage = "none"
    /\ text' = t
    /\ verdict' = [stage |-> "done",
                   is_branch_conditions |-> is_branch_conditions(t),
                   is_irregular |-> is_irregular(t),
                   is_table_title |-> is_table_title(t)]
    /\ UNCHANGED <<in_useful_range, queue, raw_tree, default_list, exc,
                   processed, tr, last, flat>>

Next == \E row \in DocRows : ReadRow(row)

Spec == Init /\ [][Next]_vars

NextFlat == (\E row \in DocRows : ReadRow(row)) \/ Flatten

SpecFlat == Init /\ [][NextFlat]_vars

NextRow == \E row \in AllRows : InterpretRow(row)

SpecRow == Init /\ [][NextRow]_vars

NextGrammar == \E t \in Texts : Classify(t)

SpecGrammar == Init /\ [][NextGrammar]_vars

-----------------------------------------------------------------------------
(* Reading the trees *)

Children(node) == Keys(node) \ {SELF_BRANCH_NAME}

\* The node a path of names leads to.
RECURSIVE NodeAt(_, _)
NodeAt(node, path) ==
    IF Len(path) = 0 THEN node
    ELSE NodeAt(Get(node, Head(path)), Tail(path))

\* The paths of names to the nodes of a raw tree, the root's << >> included.
RECURSIVE Paths(_)
Paths(node) ==
    {<< >>} \cup UNION {{<<name>> \o path : path \in Paths(Get(node, name))} :
                         name \in Children(node)}

\* The same for a normalized tree.
RECURSIVE PrettyPaths(_)
PrettyPaths(node) ==
    {<< >>} \cup
    IF Has(node, DESCENTANTS)
    THEN LET below == Get(node, DESCENTANTS)
         IN  UNION {{<<name>> \o path : path \in PrettyPaths(Get(below, name))} :
                     name \in Keys(below)}
    ELSE {}

RECURSIVE PrettyNodeAt(_, _)
PrettyNodeAt(node, path) ==
    IF Len(path) = 0 THEN node
    ELSE PrettyNodeAt(Get(Get(node, DESCENTANTS), Head(path)),
                      Tail(path))

\* queue[0], ..., queue[depth]
QueuePath(q, depth) == [i \in 1..(depth + 1) |-> Get(q, i - 1)]

\* The depths below the given one for which the queue holds no name.
MissingDepths(q, depth) == {k \in 0..depth : ~Has(q, k)}

Least(S) == CHOOSE k \in S : \A j \in S : k <= j

-----------------------------------------------------------------------------
(* Tree accumulator: claims C1, C2, C9 *)

\* grow_tree was called for tr with a depth an InterpretedRow can have.
Inserted == last.stage = "grow_tree" /\ last.depth >= 0

RowSelfBranch == SelfBranch(last.conditions, last.example_accessions)

\* The raw tree holds the path queue[0..depth] and this row's self-branch at
\* its end.
PathStored ==
    /\ MissingDepths(queue, last.depth) = {}
    /\ QueuePath(queue, last.depth) \in Paths(raw_tree)
    /\ LET node == NodeAt(raw_tree, QueuePath(queue, last.depth))
       IN  /\ Has(node, SELF_BRANCH_NAME)
           /\ Get(node, SELF_BRANCH_NAME) = RowSelfBranch

\* C1 as stated: after the insertion of any row of depth d, queue[d] is the
\* row's haplogroup, the raw tree holds the path queue[0], ..., queue[d] and
\* the node at its end has exactly this row's self-branch.
C1_PathStoredForAnyRow ==
    Inserted =>
        /\ Has(queue, last.depth)
        /\ Get(queue, last.depth) = last.haplogroup
        /\ exc = ""
        /\ PathStored

\* C1 amended: the insertion of a row of depth d sets queue[d] to the row's
\* haplogroup; when the queue then holds a name at every depth 0..d, the raw
\* tree holds the path queue[0], ..., queue[d] and the node at its end has
\* exactly this row's self-branch; when it holds none at some depth below d,
\* the insertion raises KeyError at the first such depth k, the nodes of
\* queue[0], ..., queue[k-1] being in the tree.
C1_PathStoredWhenQueueFilled ==
    Inserted =>
        /\ Has(queue, last.depth)
        /\ Get(queue, last.depth) = last.haplogroup
        /\ IF MissingDepths(queue, last.depth) = {}
           THEN exc = "" /\ PathStored
           ELSE /\ exc = "KeyError"
                /\ QueuePath(queue, Least(MissingDepths(queue, last.depth)) - 1)
                       \in Paths(raw_tree)

\* A row of depth 0 that replaces the self-branch of a node that has a child.
C1_Witness ==
    /\ Inserted
    /\ exc = ""
    /\ Len(processed) = 3
    /\ processed[1] = TreeRow(0, "H", Codes("A1G"), "")
    /\ processed[2] = TreeRow(1, "H1", Codes("A1G"), "")
    /\ tr = TreeRow(0, "H", TwoConditions, "AB1")
    /\ Get(NodeAt(raw_tree, <<Codes("H")>>), SELF_BRANCH_NAME)
           = SelfBranch(<<Codes("T") \o ARABIC_INDIC_DIGIT_TWO \o Codes("C!"),
                          Codes("960.XC")>>,
                        <<Codes("AB1")>>)
    /\ <<Codes("H"), Codes("H1")>> \in Paths(raw_tree)

\* The rows of the example of C2: depths [0,1,1,0], names [H,H1,H2,I].
ExampleRows ==
    <<TreeRow(0, "H", Codes("A1G"), ""), TreeRow(1, "H1", Codes("A1G"), ""),
      TreeRow(1, "H2", Codes("A1G"), ""), TreeRow(0, "I", Codes("A1G"), "")>>

\* C2: every node path of the raw tree is still in it after a step, and
\* the rows of the example leave the root with the children H and I, H with
\* exactly the children H1 and H2, and I with none.
C2_TreeOnlyGrows ==
    /\ [](processed = ExampleRows =>
            Paths(raw_tree) = {<< >>, <<Codes("H")>>,
                               <<Codes("H"), Codes("H1")>>,
                               <<Codes("H"), Codes("H2")>>, <<Codes("I")>>})
    /\ [][Paths(raw_tree) \subseteq Paths(raw_tree')]_vars

C2_Witness ==
    /\ processed = ExampleRows
    /\ Get(queue, 0) = Codes("I")
    /\ Children(NodeAt(raw_tree, <<Codes("H")>>)) = {Codes("H1"), Codes("H2")}

\* The depths of the rows handed to process_tr that have a condition cell.
DepthsOf(rows) ==
    LET scanned == [i \in DOMAIN rows |-> ScanCells(rows[i], 0, NoLocals)]
        tree_rows == SelectSeq(scanned, LAMBDA l : Len(l.conditions) # 0)
    IN  [i \in DOMAIN tree_rows |-> tree_rows[i].depth]

\* No row is more than one level deeper than the row before it, the first
\* being of depth 0.
StepwiseDepths(depths) ==
    \A i \in DOMAIN depths :
        /\ depths[i] >= 0
        /\ depths[i] <= IF i = 1 THEN 0 ELSE depths[i - 1] + 1

RootHasNoSelfBranch ==
    /\ ~Has(raw_tree, SELF_BRANCH_NAME)
    /\ prettify(raw_tree).exc = ""
    /\ ~Has(prettify(raw_tree).value, CONDITIONS)
    /\ ~Has(prettify(raw_tree).value, EXAMPLE_ACCESSIONS)

EveryOtherNodeHasSelfBranch ==
    /\ \A path \in Paths(raw_tree) \ {<< >>} :
           Has(NodeAt(raw_tree, path), SELF_BRANCH_NAME)
    /\ \A path \in PrettyPaths(prettify(raw_tree).value) \ {<< >>} :
           LET node == PrettyNodeAt(prettify(raw_tree).value, path)
           IN  /\ Has(node, CONDITIONS)
               /\ Has(node, EXAMPLE_ACCESSIONS)

\* C9 as stated: after any sequence of insertions the root has no
\* self-branch and every other node has one, in the raw tree and, as
\* conditions and example_accessions, in the normalized tree.
C9_SelfBranchOnEveryNode ==
    exc = "" => RootHasNoSelfBranch /\ EveryOtherNodeHasSelfBranch

\* C9 amended: the root never has a self-branch; every other node has one
\* after a sequence of insertions in which no row is more than one level
\* deeper than the row before it (the first being of depth 0).
C9_SelfBranchWhenStepwise ==
    exc = "" =>
        /\ RootHasNoSelfBranch
        /\ StepwiseDepths(DepthsOf(processed)) => EveryOtherNodeHasSelfBranch

C9_Witness ==
    /\ exc = ""
    /\ StepwiseDepths(DepthsOf(processed))
    /\ DepthsOf(processed) = <<0, 1, 2, 0>>
    /\ \E path \in Paths(raw_tree) : Len(path) = 3

-----------------------------------------------------------------------------
(* Table range filter and skipped rows: claims C3, C8 *)

\* The text holds the title marker somewhere.
ContainsMarker(s) ==
    \E i \in 1..Len(s) : \E j \in i..Len(s) : SubSeq(s, i, j) = MARKER

\* C3: in_useful_range starts false; a row read before the first title row is
\* rejected and leaves it false; the first title row sets it and is rejected;
\* from then on it stays true and every row, a title row too, is accepted.  A
\* rejected row leaves the queue and the raw tree alone.
C3_OneWayRangeFilter ==
    /\ in_useful_range = FALSE
    /\ [][LET title == ContainsMarker(get_text(tr'))
          IN  /\ ~in_useful_range /\ ~title
                     => ~in_useful_range' /\ ~last'.accepted
              /\ ~in_useful_range /\ title
                     => in_useful_range' /\ ~last'.accepted
              /\ in_useful_range => in_useful_range' /\ last'.accepted
              /\ ~last'.accepted
                     => UNCHANGED <<queue, raw_tree, processed, exc>>]_vars

\* A second title row, accepted and inserted as a row of depth 0.
C3_Witness ==
    /\ in_useful_range
    /\ ContainsMarker(get_text(tr))
    /\ last.accepted
    /\ last.stage = "grow_tree"
    /\ Len(processed) = 3
    /\ processed[1] = TreeRow(0, "H", Codes("A1G"), "")
    /\ <<Codes("mt-MRCA")>> \in Paths(raw_tree)

\* No cell of the row, trimmed, is non-empty and matches is_branch_conditions.
NoConditionCell(row) ==
    \A i \in DOMAIN row :
        \/ trim_white_space(row[i]) = << >>
        \/ ~is_branch_conditions(trim_white_space(row[i]))

\* C8: a row with no condition cell that reaches process_tr is skipped: no
\* exception, and the queue and the raw tree stay as they were.
C8_RowWithoutConditionsSkipped ==
    [][last'.accepted /\ NoConditionCell(tr')
           => /\ exc' = ""
              /\ last'.stage = "return"
              /\ queue' = queue
              /\ raw_tree' = raw_tree]_vars

\* Rows of no, one and three cells skipped after two insertions.
C8_Witness ==
    /\ last.accepted
    /\ last.stage = "return"
    /\ Len(processed) = 4
    /\ {processed[3], processed[4]} \subseteq {EmptyRow, LegendRow, HeaderRow}
    /\ processed[3] # processed[4]
    /\ <<Codes("H"), Codes("H1")>> \in Paths(raw_tree)
    /\ Keys(queue) = {0, 1}

-----------------------------------------------------------------------------
(* Row interpreter: claims C4, C5, C10 *)

ExampleRow ==
    <<<< >>, Codes("A123G"), << >>, Codes("H1"), Codes("AB123456")>>

Trimmed(row) == [i \in DOMAIN row |-> trim_white_space(row[i])]

\* The 1-based columns of the condition cells.
ConditionColumns(row) ==
    {i \in DOMAIN row : /\ Trimmed(row)[i] # << >>
                        /\ is_branch_conditions(Trimmed(row)[i])}

\* The non-empty cells among the last two columns, in order.
LastTwoNonEmpty(row) ==
    SelectSeq(SubSeq(Trimmed(row), Len(row) - 1, Len(row)), LAMBDA c : c # << >>)

Elements(seq) == {seq[i] : i \in DOMAIN seq}

\* The columns of the non-empty, non-condition cells that are not among the
\* given accessions.
NameColumns(row, accessions) ==
    {i \in DOMAIN row : /\ Trimmed(row)[i] # << >>
                        /\ ~is_branch_conditions(Trimmed(row)[i])
                        /\ Trimmed(row)[i] \notin Elements(accessions)}

\* Of a row that got to grow_tree: its accessions are the non-empty cells of
\* its last two columns, and its haplogroup is its one name cell.
GeneralRule ==
    last.stage = "grow_tree" =>
        /\ last.example_accessions = LastTwoNonEmpty(tr)
        /\ \A i \in NameColumns(tr, last.example_accessions) :
               last.haplogroup = Trimmed(tr)[i]

\* C4 as stated: the example row gives depth 1, haplogroup H1, conditions
\* [A123G], example_accessions [AB123456]; and the general rule.
C4_ExampleRowAsStated ==
    /\ tr = ExampleRow /\ last.stage # "none"
           => /\ last.stage = "grow_tree"
              /\ last.depth = 1
              /\ last.haplogroup = Codes("H1")
              /\ last.conditions = <<Codes("A123G")>>
              /\ last.example_accessions = <<Codes("AB123456")>>
    /\ GeneralRule

\* C4 amended: the example row gives depth 0, the blank-branch name as
\* haplogroup, conditions [A123G], example_accessions [H1, AB123456]; and the
\* general rule.
C4_ExampleRowAsInterpreted ==
    /\ tr = ExampleRow /\ last.stage # "none"
           => /\ last.stage = "grow_tree"
              /\ last.depth = 0
              /\ last.haplogroup = BLANK_BRANCH_NAME
              /\ last.conditions = <<Codes("A123G")>>
              /\ last.example_accessions = <<Codes("H1"), Codes("AB123456")>>
    /\ GeneralRule

C4_Witness ==
    /\ tr = ExampleRow
    /\ last.stage = "grow_tree"
    /\ Get(queue, 0) = BLANK_BRANCH_NAME

\* C5: of a row with a condition cell, two or more name cells raise
\* DuplicateDetectionError, none gives the blank-branch name, one gives the
\* cell.
C5_DuplicateDetectionError ==
    last.stage \in {"detect_haplogroup", "grow_tree"} =>
        LET names == NameColumns(tr, last.example_accessions)
        IN  /\ Cardinality(names) >= 2 => exc = "DuplicateDetectionError"
            /\ Cardinality(names) = 0
                   => last.haplogroup = BLANK_BRANCH_NAME
            /\ \A i \in names :
                   Cardinality(names) = 1 => last.haplogroup = Trimmed(tr)[i]

\* C10: a row with a condition cell gets to the tree accumulator (or to the
\* duplicate check) whatever the column of the cell and the number of cells,
\* with a depth >= 0 that is the 0-based column of the condition cell minus
\* 1 and with 0 to 2 example accessions.
C10_DepthNotNegative ==
    last.stage # "none" /\ ConditionColumns(tr) # {} =>
        /\ last.stage \in {"detect_haplogroup", "grow_tree"}
        /\ Len(last.example_accessions) \in 0..2
        /\ last.stage = "grow_tree"
               => /\ last.depth >= 0
                  /\ \E i \in ConditionColumns(tr) : last.depth = (i - 1) - 1

-----------------------------------------------------------------------------
(* Condition grammar: claim C6 *)

\* The whole token matches the regular pattern.
RegularToken(t) == Len(t) + 1 \in REGULAR(t, {1})

\* A BranchCondition token as C6 has it: regular, irregular or listed.
BranchConditionToken(t) ==
    RegularToken(t) \/ is_irregular(t) \/ t \in ExceptionList

\* C6: is_branch_conditions(text) iff the text is one or more
\* BranchCondition tokens (regular, irregular or listed) with exactly one
\* space between them; what is_irregular accepts is_branch_conditions accepts;
\* "A123G T456C!" is accepted and "A123G  T456C" is not.
C6_BranchConditionsGrammar ==
    verdict.stage = "done" =>
        /\ verdict.is_branch_conditions
               <=> \A i \in DOMAIN split(text) :
                       BranchConditionToken(split(text)[i])
        /\ verdict.is_irregular => verdict.is_branch_conditions
        /\ text = Codes("A123G T456C!") => verdict.is_branch_conditions
        /\ text = Codes("A123G  T456C") => ~verdict.is_branch_conditions

-----------------------------------------------------------------------------
(* Flattening: claim C7 *)

\* The sequence C7 describes: depth first, one entry per descendant, the
\* entry of a node being those of its ancestors followed by its own.
RECURSIVE DepthFirstPaths(_, _)
DepthFirstPaths(node, ancestors) ==
    LET below == IF Has(node, DESCENTANTS)
                 THEN Get(node, DESCENTANTS).items
                 ELSE << >>
        Entry(i) == Append(ancestors,
                           [name |-> below[i].k,
                            conditions |->
                                Get(below[i].v, CONDITIONS)])
        From[i \in 1..(Len(below) + 1)] ==
            IF i > Len(below) THEN << >>
            ELSE <<Entry(i)>> \o DepthFirstPaths(below[i].v, Entry(i))
                     \o From[i + 1]
    IN  From[1]

\* C7: a call of prettify_to_array on a tree that has descendants returns,
\* without error, the depth-first sequence of the paths of the normalized
\* tree, and so does a second call.
C7_FlattenReturnsPaths ==
    flat.calls > 0 /\ Paths(raw_tree) # {<< >>} =>
        /\ flat.exc = ""
        /\ flat.value = DepthFirstPaths(prettify(raw_tree).value, << >>)

=============================================================================
